---- MODULE Spec2Model ----
(***************************************************************************)
(* mimeparse (Go port): parsing of mime-types and media-ranges, the        *)
(* fitness/quality scoring of a mime-type against parsed media-ranges and  *)
(* the selection of the best supported mime-type for an Accept header.     *)
(*                                                                         *)
(* A Go string is a sequence of one-character strings, so that Split,      *)
(* TrimSpace, ToLower and Atof are computed character by character.        *)
(* A float is an exact decimal [neg, m, e] = (-1)^neg * m * 10^e with m    *)
(* not divisible by 10 (zero is [FALSE, 0, 0]; Go's -0.0 compares equal to *)
(* 0.0 and is never printed, so it is kept as zero).  Decimal strings of   *)
(* the sizes used here convert to distinct floats in the same order, so    *)
(* the comparisons of the code are the comparisons of the decimals.        *)
(***************************************************************************)
EXTENDS Integers, Sequences, FiniteSets, TLC

VARIABLES op, mimetype, supported, header, parsed, parsedRanges,
          fitness, quality, best

vars == <<op, mimetype, supported, header, parsed, parsedRanges,
          fitness, quality, best>>

(***************************************************************************)
(* Bounds of the inputs.                                                   *)
(***************************************************************************)
MaxParams == 2
MaxRanges == 2
MaxSupported == 2

(***************************************************************************)
(* package strings, on the characters of the inputs: the letters a b e q x *)
(* in both cases, digits, the space and the punctuation * / ; = , . + -    *)
(***************************************************************************)
SetMin(S) == CHOOSE x \in S : \A y \in S : x <= y
SetMax(S) == CHOOSE x \in S : \A y \in S : x >= y

ToLowerChar(c) ==
    CASE c = "A" -> "a"
      [] c = "B" -> "b"
      [] c = "E" -> "e"
      [] c = "Q" -> "q"
      [] c = "X" -> "x"
      [] OTHER -> c

ToLower(s) == [i \in 1..Len(s) |-> ToLowerChar(s[i])]

TrimSpace(s) ==
    LET keep == {i \in 1..Len(s) : s[i] # " "}
    IN  IF keep = {} THEN <<>> ELSE SubSeq(s, SetMin(keep), SetMax(keep))

\* strings.Split(s, sep, n): n < 0 splits at every sep, n > 0 yields at most
\* n pieces, the last one the unsplit remainder.
RECURSIVE Split(_, _, _)
Split(s, sep, n) ==
    LET at == {i \in 1..Len(s) : s[i] = sep}
    IN  IF n = 0 THEN <<>>
        ELSE IF n = 1 \/ at = {} THEN <<s>>
        ELSE LET i == SetMin(at)
             IN  <<SubSeq(s, 1, i - 1)>>
                     \o Split(SubSeq(s, i + 1, Len(s)), sep, n - 1)

(***************************************************************************)
(* package strconv: Atof on [sign] digits [. digits] [e [sign] digits].    *)
(***************************************************************************)
Digits == {"0", "1", "2", "3", "4", "5", "6", "7", "8", "9"}

DigitVal(c) ==
    CASE c = "0" -> 0 [] c = "1" -> 1 [] c = "2" -> 2 [] c = "3" -> 3
      [] c = "4" -> 4 [] c = "5" -> 5 [] c = "6" -> 6 [] c = "7" -> 7
      [] c = "8" -> 8 [] c = "9" -> 9

RECURSIVE DigitsToInt(_)
DigitsToInt(ds) ==
    IF ds = <<>> THEN 0
    ELSE DigitsToInt(SubSeq(ds, 1, Len(ds) - 1)) * 10 + DigitVal(ds[Len(ds)])

RECURSIVE Pow10(_)
Pow10(k) == IF k <= 0 THEN 1 ELSE 10 * Pow10(k - 1)

RECURSIVE NumDigits(_)
NumDigits(m) == IF m < 10 THEN 1 ELSE 1 + NumDigits(m \div 10)

Zero == [neg |-> FALSE, m |-> 0, e |-> 0]
One  == [neg |-> FALSE, m |-> 1, e |-> 0]

RECURSIVE Normal(_, _, _)
Normal(neg, m, e) ==
    IF m = 0 THEN Zero
    ELSE IF m % 10 = 0 THEN Normal(neg, m \div 10, e + 1)
    ELSE [neg |-> neg, m |-> m, e |-> e]

Sign(a) == IF a.m = 0 THEN 0 ELSE IF a.neg THEN -1 ELSE 1

\* |a| > |b| for non-zero a, b
MagGt(a, b) ==
    LET da == NumDigits(a.m) + a.e
        db == NumDigits(b.m) + b.e
        lo == IF a.e < b.e THEN a.e ELSE b.e
    IN  IF da # db THEN da > db
        ELSE a.m * Pow10(a.e - lo) > b.m * Pow10(b.e - lo)

\* the float comparison a > b
Gt(a, b) ==
    CASE Sign(a) # Sign(b) -> Sign(a) > Sign(b)
      [] Sign(a) = 0 /\ Sign(b) = 0 -> FALSE
      [] Sign(a) = 1 /\ Sign(b) = 1 -> MagGt(a, b)
      [] OTHER -> MagGt(b, a)

StripSign(s) ==
    IF s # <<>> /\ s[1] \in {"+", "-"} THEN SubSeq(s, 2, Len(s)) ELSE s

\* The decimal a string denotes: ok is FALSE when the string is no number.
ReadDecimal(s) ==
    LET es    == {i \in 1..Len(s) : s[i] \in {"e", "E"}}
        hasE  == es # {}
        ei    == IF hasE THEN SetMin(es) ELSE Len(s) + 1
        mpart == SubSeq(s, 1, ei - 1)
        epart == SubSeq(s, ei + 1, Len(s))
        neg   == mpart # <<>> /\ mpart[1] = "-"
        mbody == StripSign(mpart)
        dots  == {i \in 1..Len(mbody) : mbody[i] = "."}
        mdig  == SelectSeq(mbody, LAMBDA c : c # ".")
        frac  == IF dots = {} THEN 0 ELSE Len(mbody) - SetMin(dots)
        eneg  == epart # <<>> /\ epart[1] = "-"
        ebody == StripSign(epart)
        mOk   == /\ Cardinality(dots) <= 1
                 /\ mdig # <<>>
                 /\ \A i \in 1..Len(mdig) : mdig[i] \in Digits
        eOk   == ~hasE \/ (/\ ebody # <<>>
                           /\ \A i \in 1..Len(ebody) : ebody[i] \in Digits)
        ex    == IF hasE /\ eOk
                 THEN (IF eneg THEN -1 ELSE 1) * DigitsToInt(ebody) ELSE 0
    IN  IF mOk /\ eOk
        THEN [ok |-> TRUE, neg |-> neg, m |-> DigitsToInt(mdig), e |-> ex - frac]
        ELSE [ok |-> FALSE, neg |-> FALSE, m |-> 0, e |-> 0]

\* strconv.Atof: a syntax error yields (0, err); a decimal point beyond
\* 310 overflows to (Inf, err); a decimal point below -330 underflows to
\* zero with no error.  The spellings of the infinities and of NaN need
\* letters that no input here contains.
Atof(s) ==
    LET d  == ReadDecimal(s)
        dp == NumDigits(d.m) + d.e
    IN  IF ~d.ok THEN [val |-> Zero, err |-> TRUE]
        ELSE IF d.m = 0 THEN [val |-> Zero, err |-> FALSE]
        ELSE IF dp > 310 THEN [val |-> [neg |-> d.neg, m |-> 1, e |-> 311], err |-> TRUE]
        ELSE IF dp < -330 THEN [val |-> Zero, err |-> FALSE]
        ELSE [val |-> Normal(d.neg, d.m, d.e), err |-> FALSE]

(***************************************************************************)
(* mimeparse.go                                                            *)
(***************************************************************************)
ht(list) ==
    IF Len(list) < 1 THEN [head |-> <<>>, tail |-> <<>>]
    ELSE IF Len(list) = 1 THEN [head |-> list[1], tail |-> <<>>]
    ELSE [head |-> list[1], tail |-> SubSeq(list, 2, Len(list))]

\* map[string]string
EmptyMap == [k \in {} |-> <<>>]
MapPut(m, k, v) == [x \in (DOMAIN m) \cup {k} |-> IF x = k THEN v ELSE m[x]]
MapHas(m, k) == k \in DOMAIN m
MapGet(m, k) == IF k \in DOMAIN m THEN m[k] ELSE <<>>

Mime(t, st, p) == [mtype |-> t, subtype |-> st, params |-> p]

RECURSIVE ParseParamsLowerValue(_, _)
ParseParamsLowerValue(parts, params) ==
    IF parts = <<>> THEN params
    ELSE LET subparts == Split(Head(parts), "=", 2)
             key      == ToLower(TrimSpace(subparts[1]))
             value    == IF Len(subparts) = 2
                         THEN ToLower(TrimSpace(subparts[2])) ELSE <<>>
         IN  ParseParamsLowerValue(Tail(parts), MapPut(params, key, value))

\* the loop over the parameter tokens
RECURSIVE ParseParams(_, _)
ParseParams(parts, params) ==
    IF parts = <<>> THEN params
    ELSE LET subparts == Split(Head(parts), "=", 2)
             key      == ToLower(TrimSpace(subparts[1]))
             value    == IF Len(subparts) = 2 THEN TrimSpace(subparts[2]) ELSE <<>>
         IN  ParseParams(Tail(parts), MapPut(params, key, value))

FewerThanTwoParts(list) == Len(list) < 2
\* if len(list) != 2
NotTwoParts(list) == Len(list) # 2

ParseMimeType(mt) ==
    LET sp        == ht(Split(mt, ";", -1))
        lowered   == ToLower(sp.head)
        params    == ParseParams(sp.tail, EmptyMap)
        full_type == IF TrimSpace(lowered) = <<"*">> THEN <<"*", "/", "*">> ELSE lowered
        list      == Split(full_type, "/", -1)
    IN  IF NotTwoParts(list)
        THEN [mime |-> Mime(<<>>, <<>>, MapPut(EmptyMap, <<"q">>, <<"0">>)), err |-> TRUE]
        ELSE [mime |-> Mime(TrimSpace(list[1]), TrimSpace(list[2]), params), err |-> FALSE]

ParseMediaRangeAnyNumber(mediarange) ==
    LET p == ParseMimeType(mediarange)
        q == Atof(MapGet(p.mime.params, <<"q">>))
    IN  IF p.err THEN p
        ELSE IF MapHas(p.mime.params, <<"q">>) /\ ~q.err THEN p
        ELSE [mime |-> Mime(p.mime.mtype, p.mime.subtype,
                            MapPut(p.mime.params, <<"q">>, <<"1">>)),
              err |-> FALSE]

ParseMediaRange(mediarange) ==
    LET p == ParseMimeType(mediarange)
        q == Atof(MapGet(p.mime.params, <<"q">>))
    IN  IF p.err THEN p
        ELSE IF MapHas(p.mime.params, <<"q">>)
        THEN IF q.err \/ Gt(q.val, One) \/ Gt(Zero, q.val)
             THEN [mime |-> Mime(p.mime.mtype, p.mime.subtype,
                                 MapPut(p.mime.params, <<"q">>, <<"1">>)),
                   err |-> FALSE]
             ELSE p
        ELSE [mime |-> Mime(p.mime.mtype, p.mime.subtype,
                            MapPut(p.mime.params, <<"q">>, <<"1">>)),
              err |-> FALSE]


CompatibleRangeWildcardsOnly(r, target) ==
    /\ (r.mtype = target.mtype \/ r.mtype = <<"*">>)
    /\ (r.subtype = target.subtype \/ r.subtype = <<"*">>)

\* the type compatibility test of a range against the target
Compatible(r, target) ==
    /\ (r.mtype = target.mtype \/ r.mtype = <<"*">> \/ target.mtype = <<"*">>)
    /\ (r.subtype = target.subtype \/ r.subtype = <<"*">> \/ target.subtype = <<"*">>)

\* pmatches: the target's parameters other than q that the range carries
\* with an equal value
ParamMatches(r, target) ==
    Cardinality({key \in DOMAIN target.params :
                    /\ key # <<"q">>
                    /\ MapHas(r.params, key)
                    /\ r.params[key] = target.params[key]})

RangeFitnessNoParams(r, target) ==
    1 + (IF r.subtype = target.subtype THEN 10 ELSE 0)
      + (IF r.mtype = target.mtype THEN 100 ELSE 0)

RangeFitnessMajor10(r, target) ==
    1 + ParamMatches(r, target)
      + (IF r.subtype = target.subtype THEN 10 ELSE 0)
      + (IF r.mtype = target.mtype THEN 10 ELSE 0)

\* the fitness the loop body computes for a compatible range
RangeFitness(r, target) ==
    1 + ParamMatches(r, target)
      + (IF r.subtype = target.subtype THEN 10 ELSE 0)
      + (IF r.mtype = target.mtype THEN 100 ELSE 0)

FitterOrEqual(f, bestfitness) == f >= bestfitness
\* if fitness > bestfitness
Fitter(f, bestfitness) == f > bestfitness

RECURSIVE FitnessLoop(_, _, _, _)
FitnessLoop(target, ranges, bestfitness, bestquality) ==
    IF ranges = <<>> THEN [fitness |-> bestfitness, quality |-> bestquality]
    ELSE LET r == Head(ranges)
         IN  IF Compatible(r, target) /\ Fitter(RangeFitness(r, target), bestfitness)
             THEN FitnessLoop(target, Tail(ranges), RangeFitness(r, target),
                              Atof(MapGet(r.params, <<"q">>)).val)
             ELSE FitnessLoop(target, Tail(ranges), bestfitness, bestquality)

FitnessAndQuality(mt, ranges) ==
    FitnessLoop(ParseMediaRange(mt).mime, ranges, -1, Zero)

QualityParsed(mt, ranges) == FitnessAndQuality(mt, ranges).quality

ParseHeader(h) ==
    LET ranges == Split(h, ",", -1)
    IN  [i \in 1..Len(ranges) |-> ParseMediaRange(ranges[i]).mime]

Quality(mt, ranges) == QualityParsed(mt, ParseHeader(ranges))

HigherOrEqual(q, bestquality) == ~Gt(bestquality, q)
\* if quality > bestquality
Higher(q, bestquality) == Gt(q, bestquality)

RECURSIVE BestLoop(_, _, _, _)
BestLoop(sup, parsedHeader, bestquality, bestmime) ==
    IF sup = <<>> THEN bestmime
    ELSE LET q == FitnessAndQuality(Head(sup), parsedHeader).quality
         IN  IF Higher(q, bestquality)
             THEN BestLoop(Tail(sup), parsedHeader, q, Head(sup))
             ELSE BestLoop(Tail(sup), parsedHeader, bestquality, bestmime)

BestMatchFromBelowZero(sup, h) ==
    IF Len(sup) = 0 THEN <<>>
    ELSE BestLoop(sup, ParseHeader(h), [neg |-> TRUE, m |-> 1, e |-> 0], <<>>)

BestMatch(sup, h) ==
    LET parsedHeader == ParseHeader(h)
    IN  IF Len(sup) = 0 THEN <<>>
        ELSE BestLoop(sup, parsedHeader, Zero, <<>>)

(***************************************************************************)
(* Inputs.  Each string is written out as its characters.                  *)
(***************************************************************************)
RECURSIVE Join(_, _)
Join(list, sep) ==
    IF list = <<>> THEN <<>>
    ELSE IF Len(list) = 1 THEN list[1]
    ELSE list[1] \o sep \o Join(Tail(list), sep)

RECURSIVE Flatten(_)
Flatten(list) == IF list = <<>> THEN <<>> ELSE Head(list) \o Flatten(Tail(list))

\* the sequences over S of length lo..hi
SeqsOf(S, lo, hi) == UNION {[1..n -> S] : n \in lo..hi}

\* type/subtype heads: plain, upper case, padded, the bare *, and heads
\* with no, two or an edge "/"
Heads ==
    { <<"a", "/", "b">>,
      <<"A", "/", "B">>,
      <<" ", "a", "/", "b", " ">>,
      <<"*">>,
      <<" ", "*">>,
      <<"*", "/", "*">>,
      <<"a", "b">>,
      <<"a", "/", "b", "/", "a">>,
      <<"/", "b">>,
      <<"a", "/">>,
      <<>> }

\* parameter tokens: q in and out of range, empty, bare, padded, no number,
\* underflowing; other names with and without value, one value holding a "/"
ParamTokens ==
    { <<";", "q", "=", "0", ".", "5">>,
      <<";", "q", "=", "1">>,
      <<";", "q", "=", "2">>,
      <<";", "q", "=", "-", "1">>,
      <<";", "q">>,
      <<";", "q", "=">>,
      <<";", " ", "Q", " ", "=", " ", ".", "2", " ">>,
      <<";", "q", "=", "a">>,
      <<";", "q", "=", "-", "1", "e", "-", "9", "9", "9">>,
      <<";", "x", "=", "1">>,
      <<";", "X", "=", "A">>,
      <<";", "x">>,
      <<";", "x", "=", "a", "/", "b">> }

ParseInputs ==
    {hd \o Flatten(ps) : hd \in Heads, ps \in SeqsOf(ParamTokens, 0, MaxParams)}

\* mime-types to score
Candidates ==
    { <<"a", "/", "b">>,
      <<"a", "/", "b", ";", "x", "=", "1">>,
      <<"a", "/", "*">>,
      <<"*", "/", "*">>,
      <<"b", "/", "a">>,
      <<"a", "b">> }

\* media-ranges of the headers to score against
FitRanges ==
    { <<"a", "/", "b">>,
      <<"a", "/", "b", ";", "q", "=", "0", ".", "5">>,
      <<"a", "/", "b", ";", "x", "=", "1", ";", "q", "=", "0", ".", "2">>,
      <<"a", "/", "*", ";", "q", "=", "0", ".", "5">>,
      <<" ", "*", "/", "*", ";", "q", "=", "0", ".", "1">>,
      <<"*", "/", "b", ";", "x", "=", "1">>,
      <<"b", "/", "a", ";", "q", "=", "0">>,
      <<"b", "/", "a", ";", "q", "=", "2">>,
      <<"a", "/", "b", ";", "q", "=", "-", "1">>,
      <<"a", "b">> }

FitHeaders == {Join(rs, <<",">>) : rs \in SeqsOf(FitRanges, 1, MaxRanges)}

\* supported mime-types
SupportedTypes ==
    { <<"a", "/", "b">>,
      <<"b", "/", "a">>,
      <<"a", "/", "*">>,
      <<"*", "/", "*">>,
      <<"a", "b">> }

\* media-ranges of the Accept headers
BestRanges ==
    { <<"a", "/", "b">>,
      <<"a", "/", "b", ";", "q", "=", "0", ".", "5">>,
      <<"*", "/", "*">>,
      <<"a", "/", "*", ";", "q", "=", "0", ".", "1">>,
      <<"a", "b">>,
      <<"/">> }

SupportedLists == SeqsOf(SupportedTypes, 0, MaxSupported)
BestHeaders == {Join(rs, <<",">>) : rs \in SeqsOf(BestRanges, 1, MaxRanges)}

(***************************************************************************)
(* The state machine: one call of one public function on drawn inputs.     *)
(***************************************************************************)
NoParse == [mime |-> Mime(<<>>, <<>>, EmptyMap), err |-> FALSE]

InitResults ==
    /\ op = "none"
    /\ parsed = NoParse
    /\ parsedRanges = <<>>
    /\ fitness = -1
    /\ quality = Zero
    /\ best = <<>>

InitParse ==
    /\ mimetype \in ParseInputs
    /\ header = <<>>
    /\ supported = <<>>
    /\ InitResults

InitFit ==
    /\ mimetype \in Candidates
    /\ header \in FitHeaders
    /\ supported = <<>>
    /\ InitResults

InitBest ==
    /\ mimetype = <<>>
    /\ header \in BestHeaders
    /\ supported \in SupportedLists
    /\ InitResults

Init == InitParse \/ InitFit \/ InitBest

DoParseMimeType ==
    /\ op = "none"
    /\ parsed' = ParseMimeType(mimetype)
    /\ op' = "ParseMimeType"
    /\ UNCHANGED <<mimetype, supported, header, parsedRanges, fitness, quality, best>>

DoParseMediaRange ==
    /\ op = "none"
    /\ parsed' = ParseMediaRange(mimetype)
    /\ op' = "ParseMediaRange"
    /\ UNCHANGED <<mimetype, supported, header, parsedRanges, fitness, quality, best>>

DoParseHeader ==
    /\ op = "none"
    /\ parsedRanges' = ParseHeader(header)
    /\ op' = "ParseHeader"
    /\ UNCHANGED <<mimetype, supported, header, parsed, fitness, quality, best>>

DoFitnessAndQuality ==
    /\ op = "ParseHeader"
    /\ LET fq == FitnessAndQuality(mimetype, parsedRanges)
       IN  /\ fitness' = fq.fitness
           /\ quality' = fq.quality
    /\ op' = "FitnessAndQuality"
    /\ UNCHANGED <<mimetype, supported, header, parsed, parsedRanges, best>>

DoQualityParsed ==
    /\ op = "ParseHeader"
    /\ quality' = QualityParsed(mimetype, parsedRanges)
    /\ op' = "QualityParsed"
    /\ UNCHANGED <<mimetype, supported, header, parsed, parsedRanges, fitness, best>>

DoQuality ==
    /\ op = "none"
    /\ quality' = Quality(mimetype, header)
    /\ op' = "Quality"
    /\ UNCHANGED <<mimetype, supported, header, parsed, parsedRanges, fitness, best>>

DoBestMatch ==
    /\ op = "none"
    /\ best' = BestMatch(supported, header)
    /\ op' = "BestMatch"
    /\ UNCHANGED <<mimetype, supported, header, parsed, parsedRanges, fitness, quality>>

NextParse == DoParseMimeType \/ DoParseMediaRange
NextFit == DoParseHeader \/ DoFitnessAndQuality \/ DoQualityParsed \/ DoQuality
NextBest == DoBestMatch

Next == NextParse \/ NextFit \/ NextBest

Spec == Init /\ [][Next]_vars
SpecParse == InitParse /\ [][NextParse]_vars
SpecFit == InitFit /\ [][NextFit]_vars
SpecBest == InitBest /\ [][NextBest]_vars

(***************************************************************************)
(* Properties.                                                             *)
(***************************************************************************)
Star == <<"*">>
QKey == <<"q">>

\* the quality of every supported entry against the header
Qualities(sup, h) ==
    [i \in 1..Len(sup) |-> FitnessAndQuality(sup[i], ParseHeader(h)).quality]

C2_EmptyOrPositiveMember ==
    op = "BestMatch" =>
        LET qs == Qualities(supported, header)
        IN  IF \A i \in 1..Len(supported) : ~Gt(qs[i], Zero)
            THEN best = <<>>
            ELSE \E i \in 1..Len(supported) :
                    best = supported[i] /\ Gt(qs[i], Zero)

\* a non-empty supported list, every entry of quality 0, and "" returned
C2_Witness ==
    /\ op = "BestMatch"
    /\ Len(supported) = 2
    /\ \A i \in 1..2 : Qualities(supported, header)[i] = Zero
    /\ best = <<>>

\* C3: against a header that is one malformed entry, FitnessAndQuality
\* returns (-1, 0) for every candidate.
C3_SentinelNeverMatches ==
    (/\ op = "FitnessAndQuality"
     /\ Len(parsedRanges) = 1
     /\ ParseMimeType(header).err)
        => (fitness = -1 /\ quality = Zero)

\* the parsed ranges of the header's well-formed entries, in order
WellFormedRanges(h) ==
    LET ok == SelectSeq(Split(h, ",", -1), LAMBDA r : ~ParseMediaRange(r).err)
    IN  [i \in 1..Len(ok) |-> ParseMediaRange(ok[i]).mime]

BestOf(sup, ranges) ==
    IF Len(sup) = 0 THEN <<>> ELSE BestLoop(sup, ranges, Zero, <<>>)

\* C4: BestMatch, and the quality of every supported entry, are what they
\* are when the entries of the header that fail to parse are left out.
C4_MalformedIgnored ==
    op = "BestMatch" =>
        /\ best = BestOf(supported, WellFormedRanges(header))
        /\ \A i \in 1..Len(supported) :
              Qualities(supported, header)[i]
                  = QualityParsed(supported[i], WellFormedRanges(header))

\* the exact decimal a string denotes lies in [0, 1]
InUnitInterval(s) ==
    LET d == ReadDecimal(s)
        v == Normal(d.neg, d.m, d.e)
    IN  d.ok /\ ~Gt(v, One) /\ ~Gt(Zero, v)

\* C5: a successfully parsed media range has a q: the supplied q string
\* when that is a number in [0, 1], and "1" otherwise.
C5_QNormalized ==
    (op = "ParseMediaRange" /\ ~parsed.err) =>
        LET given == ParseMimeType(mimetype).mime.params
        IN  /\ MapHas(parsed.mime.params, QKey)
            /\ parsed.mime.params[QKey] =
                  (IF MapHas(given, QKey) /\ InUnitInterval(given[QKey])
                   THEN given[QKey] ELSE <<"1">>)

\* the text before the first ";", a bare "*" read as "*/*"
HeadToken(s) ==
    LET semis == {i \in 1..Len(s) : s[i] = ";"}
        hd    == IF semis = {} THEN s ELSE SubSeq(s, 1, SetMin(semis) - 1)
    IN  IF TrimSpace(hd) = Star THEN <<"*", "/", "*">> ELSE hd

SlashCount(s) == Cardinality({i \in 1..Len(s) : s[i] = "/"})

\* C6: ParseMimeType and ParseMediaRange return an error exactly when the
\* head token does not contain exactly one "/".
C6_ErrorIffNotOneSlash ==
    op \in {"ParseMimeType", "ParseMediaRange"} =>
        (parsed.err <=> SlashCount(HeadToken(mimetype)) # 1)

\* a head with two "/" is refused by both functions
C6_Witness ==
    /\ op \in {"ParseMimeType", "ParseMediaRange"}
    /\ SlashCount(HeadToken(mimetype)) = 2
    /\ parsed.err

\* C7: a successful ParseMimeType has a non-empty major type and subtype.
C7_TypesNonEmpty ==
    (op = "ParseMimeType" /\ ~parsed.err) =>
        (parsed.mime.mtype # <<>> /\ parsed.mime.subtype # <<>>)

\* the candidate's parameters other than q that the range carries equal
MatchedParams(r, target) ==
    {k \in (DOMAIN target.params) \ {QKey} :
        k \in DOMAIN r.params /\ r.params[k] = target.params[k]}

\* C8 as stated: against one compatible range the fitness is
\* 100 (major equal) + 10 (subtype equal) + the parameter matches.
C8_FitnessFormula ==
    (/\ op = "FitnessAndQuality"
     /\ Len(parsedRanges) = 1
     /\ Compatible(parsedRanges[1], ParseMediaRange(mimetype).mime))
        => LET r == parsedRanges[1]
               t == ParseMediaRange(mimetype).mime
           IN  fitness = (IF r.mtype = t.mtype THEN 100 ELSE 0)
                       + (IF r.subtype = t.subtype THEN 10 ELSE 0)
                       + Cardinality(MatchedParams(r, t))

\* C8 amended: against one compatible range the fitness is
\* 1 + 100 (major equal) + 10 (subtype equal) + the parameter matches.
C8_FitnessFormulaPlusOne ==
    (/\ op = "FitnessAndQuality"
     /\ Len(parsedRanges) = 1
     /\ Compatible(parsedRanges[1], ParseMediaRange(mimetype).mime))
        => LET r == parsedRanges[1]
               t == ParseMediaRange(mimetype).mime
           IN  fitness = 1 + (IF r.mtype = t.mtype THEN 100 ELSE 0)
                           + (IF r.subtype = t.subtype THEN 10 ELSE 0)
                           + Cardinality(MatchedParams(r, t))

\* one compatible range that also matches a parameter: 1 + 100 + 10 + 1
C8_Witness ==
    /\ op = "FitnessAndQuality"
    /\ Len(parsedRanges) = 1
    /\ Compatible(parsedRanges[1], ParseMediaRange(mimetype).mime)
    /\ MatchedParams(parsedRanges[1], ParseMediaRange(mimetype).mime) # {}
    /\ fitness = 112

\* C9: FitnessAndQuality returns the highest fitness among the compatible
\* ranges with the q of the first range that reaches it, and (-1, 0) when
\* no range is compatible.
C9_FirstBestRange ==
    op = "FitnessAndQuality" =>
        LET t      == ParseMediaRange(mimetype).mime
            compat == {i \in 1..Len(parsedRanges) : Compatible(parsedRanges[i], t)}
            f(i)   == RangeFitness(parsedRanges[i], t)
        IN  IF compat = {} THEN fitness = -1 /\ quality = Zero
            ELSE \E i \in compat :
                    /\ \A j \in compat : f(j) <= f(i)
                    /\ \A j \in compat : j < i => f(j) < f(i)
                    /\ fitness = f(i)
                    /\ quality = Atof(parsedRanges[i].params[QKey]).val

\* two compatible ranges of equal, highest fitness and different q: the
\* first one's q is returned
C9_Witness ==
    /\ op = "FitnessAndQuality"
    /\ Len(parsedRanges) = 2
    /\ LET t == ParseMediaRange(mimetype).mime
       IN  /\ Compatible(parsedRanges[1], t) /\ Compatible(parsedRanges[2], t)
           /\ RangeFitness(parsedRanges[1], t) = RangeFitness(parsedRanges[2], t)
           /\ fitness = RangeFitness(parsedRanges[1], t)
    /\ parsedRanges[1].params[QKey] # parsedRanges[2].params[QKey]
    /\ quality = Atof(parsedRanges[1].params[QKey]).val
    /\ quality # Atof(parsedRanges[2].params[QKey]).val

\* the fitness of the candidate against one range alone
FitnessOf(mt, r) == FitnessAndQuality(mt, <<r>>).fitness

\* a range with the candidate's major type and a range with major type "*",
\* both compatible, with the same subtype outcome
MajorVersusWildcard(t, r1, r2) ==
    /\ Compatible(r1, t) /\ Compatible(r2, t)
    /\ r1.mtype = t.mtype
    /\ r2.mtype = Star
    /\ (r1.subtype = t.subtype) <=> (r2.subtype = t.subtype)

\* C10 as stated: the range with the candidate's major type is at least 100
\* fitter than the range with the wildcard major type.
C10_Monotone ==
    op = "FitnessAndQuality" =>
        LET t == ParseMediaRange(mimetype).mime
        IN  \A i, j \in 1..Len(parsedRanges) :
                MajorVersusWildcard(t, parsedRanges[i], parsedRanges[j]) =>
                    FitnessOf(mimetype, parsedRanges[i])
                        >= FitnessOf(mimetype, parsedRanges[j]) + 100

\* C10 amended: the same, for a candidate whose own major type is not "*"
\* and a wildcard range that matches no more of the candidate's parameters
\* than the other range does.
C10_MonotoneAmended ==
    op = "FitnessAndQuality" =>
        LET t == ParseMediaRange(mimetype).mime
        IN  \A i, j \in 1..Len(parsedRanges) :
                (/\ MajorVersusWildcard(t, parsedRanges[i], parsedRanges[j])
                 /\ t.mtype # Star
                 /\ Cardinality(MatchedParams(parsedRanges[j], t))
                        <= Cardinality(MatchedParams(parsedRanges[i], t)))
                    => FitnessOf(mimetype, parsedRanges[i])
                           >= FitnessOf(mimetype, parsedRanges[j]) + 100

\* an exact range before a wildcard-major range of the same subtype
C10_Witness ==
    /\ op = "FitnessAndQuality"
    /\ Len(parsedRanges) = 2
    /\ LET t == ParseMediaRange(mimetype).mime
       IN  /\ MajorVersusWildcard(t, parsedRanges[1], parsedRanges[2])
           /\ t.mtype # Star
           /\ parsedRanges[1].subtype = t.subtype
           /\ Cardinality(MatchedParams(parsedRanges[2], t))
                  <= Cardinality(MatchedParams(parsedRanges[1], t))
    /\ FitnessOf(mimetype, parsedRanges[1]) = FitnessOf(mimetype, parsedRanges[2]) + 100

Before(s, c) ==
    LET at == {i \in 1..Len(s) : s[i] = c}
    IN  IF at = {} THEN s ELSE SubSeq(s, 1, SetMin(at) - 1)

After(s, c) ==
    LET at == {i \in 1..Len(s) : s[i] = c}
    IN  IF at = {} THEN <<>> ELSE SubSeq(s, SetMin(at) + 1, Len(s))

\* the parameter tokens: the pieces between the ";" after the head
RECURSIVE TokensAfterHead(_)
TokensAfterHead(s) ==
    IF \A i \in 1..Len(s) : s[i] # ";" THEN <<>>
    ELSE <<Before(After(s, ";"), ";")>> \o TokensAfterHead(After(s, ";"))

TokenName(tok) == ToLower(TrimSpace(Before(tok, "=")))
TokenValue(tok) == TrimSpace(After(tok, "="))

\* the trimmed head, a bare "*" read as "*/*"
NormalHead(s) ==
    LET hd == TrimSpace(Before(s, ";"))
    IN  IF hd = Star THEN <<"*", "/", "*">> ELSE hd

\* C12: a successful ParseMimeType yields the normalized input: types
\* trimmed and lower-cased, a bare "*" read as "*/*", parameter names
\* trimmed and lower-cased, values trimmed with their case kept, and ""
\* for a token without "=" (of tokens with the same name the last counts).
C12_Normalized ==
    (op = "ParseMimeType" /\ ~parsed.err) =>
        LET hd   == NormalHead(mimetype)
            toks == TokensAfterHead(mimetype)
            p    == parsed.mime.params
        IN  /\ parsed.mime.mtype = ToLower(TrimSpace(Before(hd, "/")))
            /\ parsed.mime.subtype = ToLower(TrimSpace(After(hd, "/")))
            /\ DOMAIN p = {TokenName(toks[i]) : i \in 1..Len(toks)}
            /\ \A i \in 1..Len(toks) :
                  (\A j \in (i + 1)..Len(toks) : TokenName(toks[j]) # TokenName(toks[i]))
                      => p[TokenName(toks[i])] = TokenValue(toks[i])

\* an upper-case type with an upper-case parameter name and value: the
\* type and the name are lower-cased, the value is not
C12_Witness ==
    /\ op = "ParseMimeType"
    /\ ~parsed.err
    /\ mimetype[1] = "A"
    /\ parsed.mime.mtype = <<"a">>
    /\ \E i \in 1..Len(TokensAfterHead(mimetype)) :
          TokensAfterHead(mimetype)[i] = <<"X", "=", "A">>
    /\ MapHas(parsed.mime.params, <<"x">>)
    /\ parsed.mime.params[<<"x">>] = <<"A">>

\* the supported list is <<M/*, T>> with T's major type neither M nor "*",
\* and the header is the one range M/x with no parameters
WildcardSupported ==
    /\ Len(supported) = 2
    /\ \A i \in 1..Len(header) : header[i] \notin {",", ";"}
    /\ LET s1 == ParseMimeType(supported[1])
           s2 == ParseMimeType(supported[2])
           h  == ParseMimeType(header)
       IN  /\ ~h.err /\ ~s1.err
           /\ s1.mime.mtype = h.mime.mtype
           /\ s1.mime.subtype = Star
           /\ s2.mime.mtype \notin {h.mime.mtype, Star}

\* C13: BestMatch(<<M/*, T>>, M/x) returns M/* as written, with the q of
\* the range M/x, for every T whose major type is neither M nor "*".
C13_SupportedWildcard ==
    (op = "BestMatch" /\ WildcardSupported) =>
        /\ best = supported[1]
        /\ Qualities(supported, header)[1]
              = Atof(ParseMediaRange(header).mime.params[QKey]).val

\* a/* is returned for the header a/b, ahead of a well-formed other type
C13_Witness ==
    /\ op = "BestMatch"
    /\ WildcardSupported
    /\ ParseMimeType(supported[1]).mime.mtype # Star
    /\ ParseMimeType(header).mime.subtype # Star
    /\ ~ParseMimeType(supported[2]).err
    /\ best = supported[1]

\* C14: when BestMatch returns a type, no supported entry has a fitness
\* against the header above the fitness of the returned type.
C14_HighestFitness ==
    (op = "BestMatch" /\ best # <<>>) =>
        \A i \in 1..Len(supported) :
            FitnessAndQuality(supported[i], ParseHeader(header)).fitness
                <= FitnessAndQuality(best, ParseHeader(header)).fitness

\* C15: a supported entry that fails to parse has quality 0 against every
\* header and is never returned by BestMatch.
C15_MalformedSupportedNeverWins ==
    op = "BestMatch" =>
        \A i \in 1..Len(supported) :
            ParseMimeType(supported[i]).err =>
                /\ Qualities(supported, header)[i] = Zero
                /\ best # supported[i]

====
